---- MODULE Spec2Model ----
(***************************************************************************)
(* Linear regression from scratch (Linear-Regression-Scratch.ipynb):       *)
(* synthetic data generation, the predictor net, square_loss,              *)
(* get_gradient and the gradient-descent loop.                             *)
(*                                                                         *)
(* Floating-point numbers are modelled as exact rationals in lowest terms  *)
(* ([n |-> numerator, d |-> denominator > 0]).  numpy arrays are modelled  *)
(* with their shape: [err, shape, data], data in row-major order, err set  *)
(* when numpy raises ValueError (shapes not aligned / not broadcastable).  *)
(***************************************************************************)
EXTENDS Integers, Sequences, FiniteSets, TLC

(* ------------------------------ bounds --------------------------------- *)
\* largest number of samples drawn (num_examples ranges over 1..MaxExamples)
MaxExamples == 2
\* cap on the iteration counter epochs (the loop itself has no cap)
MaxEpochs == 4
\* longest vector handed to square_loss in SpecFn
MaxLen == 2

(* --------------------------- rational numbers -------------------------- *)
IAbs(i) == IF i < 0 THEN -i ELSE i

RECURSIVE GCD(_, _)
GCD(a, c) == IF c = 0 THEN a ELSE GCD(c, a % c)

\* the rational n/d (d # 0) in lowest terms with a positive denominator
Rat(n, d) ==
  LET s == IF d < 0 THEN -1 ELSE 1
      g == GCD(IAbs(n), IAbs(d))
  IN  [n |-> (s * n) \div g, d |-> (s * d) \div g]

Int2R(i) == [n |-> i, d |-> 1]
Zero == Int2R(0)
\* sums are formed over the least common denominator to keep the integers small
LCM(a, c) == (a \div GCD(a, c)) * c
RAdd(p, q) ==
  LET l == LCM(p.d, q.d)
  IN  Rat(p.n * (l \div p.d) + q.n * (l \div q.d), l)
RNeg(p) == [n |-> -p.n, d |-> p.d]
RSub(p, q) == RAdd(p, RNeg(q))
RMul(p, q) ==
  LET g1 == GCD(IAbs(p.n), q.d)
      g2 == GCD(IAbs(q.n), p.d)
  IN  Rat((p.n \div g1) * (q.n \div g2), (p.d \div g2) * (q.d \div g1))
RDiv(p, q) == Rat(p.n * q.d, p.d * q.n)
RAbs(p) == [n |-> IAbs(p.n), d |-> p.d]
RLess(p, q) == p.n * q.d < q.n * p.d
RMax(p, q) == IF RLess(p, q) THEN q ELSE p

RECURSIVE RSumSeq(_)
RSumSeq(s) == IF s = <<>> THEN Zero ELSE RAdd(Head(s), RSumSeq(Tail(s)))

RECURSIVE RMaxSeq(_)
RMaxSeq(s) == IF Len(s) = 1 THEN s[1] ELSE RMax(s[1], RMaxSeq(Tail(s)))

(* ------------------------------ ndarrays ------------------------------- *)
\* the sequence <<f[1], ..., f[n]>>, built element by element
RECURSIVE MkSeq(_, _)
MkSeq(f, n) == IF n = 0 THEN <<>> ELSE Append(MkSeq(f, n - 1), f[n])

Arr(shape, data) == [err |-> FALSE, shape |-> shape, data |-> data]
ValueError == [err |-> TRUE, shape |-> <<>>, data |-> <<>>]
Scalar(r) == Arr(<<>>, <<r>>)
Vec(s) == Arr(<<Len(s)>>, s)
\* a 2-D array from a sequence of equally long rows
Mat(rows, cols) ==
  LET n == Len(rows) * cols
      E == [k \in 1..n |-> rows[((k - 1) \div cols) + 1][((k - 1) % cols) + 1]]
  IN  Arr(<<Len(rows), cols>>, MkSeq(E, n))
Unset == Arr(<<0>>, <<>>)

Rank(a) == Len(a.shape)
\* the shape padded with leading 1s to two dimensions (numpy broadcasting rule)
Shape2(a) ==
  IF Rank(a) = 0 THEN <<1, 1>>
  ELSE IF Rank(a) = 1 THEN <<1, a.shape[1]>>
  ELSE a.shape
\* element (i, j) of a, a dimension of extent 1 being stretched
At2(a, i, j) ==
  LET s == Shape2(a)
      ii == IF s[1] = 1 THEN 1 ELSE i
      jj == IF s[2] = 1 THEN 1 ELSE j
  IN  a.data[(ii - 1) * s[2] + jj]

Broadcastable(a, c) ==
  LET s == Shape2(a)
      t == Shape2(c)
  IN  \A k \in 1..2 : s[k] = t[k] \/ s[k] = 1 \/ t[k] = 1

\* the arithmetic operator named op applied to two numbers
Apply(op, p, q) ==
  CASE op = "+" -> RAdd(p, q)
    [] op = "-" -> RSub(p, q)
    [] op = "*" -> RMul(p, q)
    [] op = "/" -> RDiv(p, q)

\* a op c element by element, with numpy broadcasting
Elementwise(op, a, c) ==
  IF a.err \/ c.err \/ ~Broadcastable(a, c) THEN ValueError
  ELSE LET s == Shape2(a)
           t == Shape2(c)
           r1 == IF s[1] = 1 THEN t[1] ELSE s[1]
           r2 == IF s[2] = 1 THEN t[2] ELSE s[2]
           rank == IF Rank(a) > Rank(c) THEN Rank(a) ELSE Rank(c)
           shape == IF rank = 0 THEN <<>> ELSE IF rank = 1 THEN <<r2>> ELSE <<r1, r2>>
           E == [k \in 1..(r1 * r2) |->
                   Apply(op, At2(a, ((k - 1) \div r2) + 1, ((k - 1) % r2) + 1),
                             At2(c, ((k - 1) \div r2) + 1, ((k - 1) % r2) + 1))]
       IN  Arr(shape, MkSeq(E, r1 * r2))

Add(a, c) == Elementwise("+", a, c)
Sub(a, c) == Elementwise("-", a, c)
Mul(a, c) == Elementwise("*", a, c)
Div(a, c) == Elementwise("/", a, c)
Square(a) == Mul(a, a)
Abs(a) ==
  LET E == [k \in 1..Len(a.data) |-> RAbs(a.data[k])]
  IN  IF a.err THEN ValueError ELSE Arr(a.shape, MkSeq(E, Len(a.data)))

\* ndarray.transpose(): reverses the axes
Transpose(a) ==
  IF a.err \/ Rank(a) < 2 THEN a
  ELSE LET r == a.shape[1]
           c == a.shape[2]
           E == [k \in 1..(r * c) |-> a.data[((k - 1) % r) * c + ((k - 1) \div r) + 1]]
       IN  Arr(<<c, r>>, MkSeq(E, r * c))

\* ndarray.dot for operands of rank 1 or 2: sum over the last axis of a and
\* the first axis of c
Dot(a, c) ==
  IF a.err \/ c.err \/ Rank(a) = 0 \/ Rank(c) = 0 THEN ValueError
  ELSE LET m == IF Rank(a) = 1 THEN 1 ELSE a.shape[1]
           n == IF Rank(a) = 1 THEN a.shape[1] ELSE a.shape[2]
           n2 == c.shape[1]
           p == IF Rank(c) = 1 THEN 1 ELSE c.shape[2]
           shape == IF Rank(a) = 1
                    THEN (IF Rank(c) = 1 THEN <<>> ELSE <<p>>)
                    ELSE (IF Rank(c) = 1 THEN <<m>> ELSE <<m, p>>)
           E == [k \in 1..(m * p) |->
                   RSumSeq(MkSeq([l \in 1..n |->
                                    RMul(a.data[((k - 1) \div p) * n + l],
                                         c.data[(l - 1) * p + ((k - 1) % p) + 1])], n))]
       IN  IF n # n2 THEN ValueError ELSE Arr(shape, MkSeq(E, m * p))

\* x[:, j] of a 2-D array (j counted from 0 as in the source)
Col(x, j) ==
  LET E == [i \in 1..x.shape[1] |-> x.data[(i - 1) * x.shape[2] + j + 1]]
  IN  Arr(<<x.shape[1]>>, MkSeq(E, x.shape[1]))
\* np.sum, np.mean, np.max over all elements; len(x)
NpSum(a) == RSumSeq(a.data)
NpMean(a) == RDiv(RSumSeq(a.data), Int2R(Len(a.data)))
NpMax(a) == RMaxSeq(a.data)
PyLen(a) == a.shape[1]

(* --------------------------- program constants ------------------------- *)
num_inputs == 2
\* real_fn: 2 * X[:, 0] - 3.4 * X[:, 1] + 4.2
TrueW == <<Rat(2, 1), Rat(-34, 10)>>
TrueB == Rat(42, 10)

(* ------------------- values the random draws range over ---------------- *)
\* rows of np.random.multivariate_normal(input_mean, input_variance, n)
RawRows == {<<Int2R(2), Int2R(0)>>, <<Int2R(2), Int2R(-2)>>}
\* elements of np.random.normal(noise_mean, noise_variance, n)
NoiseDraws == {Zero, Rat(1, 5)}
\* rows of the initial w and elements of the initial b
WRows == {TrueW, <<Zero, Zero>>}
BDraws == {TrueB, Zero}
\* values of lr and tolerance the driver is run with
LrSet == {Zero, Int2R(1)}
TolSet == {Zero, Rat(1, 1000), Int2R(1)}

(* -------------------------------- state -------------------------------- *)
VARIABLES
  state,        \* NEW, GENERATED, INITIALISED, RUNNING, CONVERGED
  num_examples, \* number of samples
  X, noise, y,  \* feature matrix, noise draws, targets
  w, b,         \* parameters
  params,       \* params = [w, b]: the arrays as initialised
  lr, tolerance, epochs,
  commits,      \* history: number of times `w = new_w` has run
  gradient, loss, new_w,  \* values computed by the last loop iteration
  out,          \* lines printed by the loop; an "Iteration" line is recorded
                \* by the two values handed to its format string
  fn_pc, fn_yhat, fn_y, fn_loss  \* a direct call square_loss(fn_yhat, fn_y)

progvars == <<state, num_examples, X, noise, y, w, b, params, lr, tolerance, epochs,
              commits, gradient, loss, new_w, out>>
fnvars == <<fn_pc, fn_yhat, fn_y, fn_loss>>
vars == <<progvars, fnvars>>

(* ----------------------------- the functions --------------------------- *)
real_fn(x) ==
  Add(Sub(Mul(Scalar(Int2R(2)), Col(x, 0)), Mul(Scalar(Rat(34, 10)), Col(x, 1))),
      Scalar(Rat(42, 10)))

\* net without the bias term
net_NoBias(x) == Dot(w, Transpose(x))

\* net reads the global w and b
net(x) == Add(Dot(w, Transpose(x)), b)

\* the loss without the squaring
square_loss_NoSquare(yhat, yy) ==
  LET d == Sub(yhat, yy)
  IN  IF d.err THEN ValueError ELSE Scalar(NpMean(d))

\* the loss with the differences cubed
square_loss_Cubed(yhat, yy) ==
  LET d == Mul(Sub(yhat, yy), Square(Sub(yhat, yy)))
  IN  IF d.err THEN ValueError ELSE Scalar(NpMean(d))

square_loss(yhat, yy) ==
  LET d == Square(Sub(yhat, yy))
  IN  IF d.err THEN ValueError ELSE Scalar(NpMean(d))

\* get_gradient with the error taken as y_estimate - y
get_gradient_SignSlip(ww, x, yy) ==
  LET Body(y_estimate) ==
        LET error == Sub(y_estimate, yy)
            grad == Mul(Scalar(RNeg(RDiv(Int2R(1), Int2R(PyLen(x))))), Dot(error, x))
            l == square_loss(yy, y_estimate)
        IN  <<grad, l>>
  IN  Body(net(x))

\* get_gradient(w, x, y): the pair <<gradient, loss>>.  As in the source the
\* parameter w is not read: the predictions come from net, which reads the
\* global w (the same array at every call the loop makes).
get_gradient(ww, x, yy) ==
  LET Body(y_estimate) ==
        LET error == Sub(yy, y_estimate)
            grad == Mul(Scalar(RNeg(RDiv(Int2R(1), Int2R(PyLen(x))))), Dot(error, x))
            l == square_loss(yy, y_estimate)
        IN  <<grad, l>>
  IN  Body(net(x))

\* the update with the learning rate left out
NewW_NoRate(ww, rate, grad) == Sub(ww, grad)

\* new_w = w - lr * gradient
NewW(ww, rate, grad) == Sub(ww, Mul(Scalar(rate), grad))

\* the stopping test with <= in place of <
StopCondition_Le(nw, ww, tol) == ~RLess(tol, NpSum(Abs(Sub(nw, ww))))

\* np.sum(abs(new_w - w)) < tolerance
StopCondition(nw, ww, tol) == RLess(NpSum(Abs(Sub(nw, ww))), tol)

(* ------------------------------- actions ------------------------------- *)
Init ==
  /\ state = "NEW"
  /\ num_examples = 0
  /\ X = Unset /\ noise = Unset /\ y = Unset
  /\ w = Unset /\ b = Unset /\ params = <<>>
  /\ lr = Zero /\ tolerance = Zero /\ epochs = 0 /\ commits = 0
  /\ gradient = Unset /\ loss = Unset /\ new_w = Unset
  /\ out = <<>>
  /\ fn_pc = "idle" /\ fn_yhat = Unset /\ fn_y = Unset /\ fn_loss = Unset

\* data generation with the targets computed from X before the division
Generate_RawTargets ==
  /\ state = "NEW"
  /\ \E n \in 1..MaxExamples :
       \E rows \in [1..n -> RawRows], nz \in [1..n -> NoiseDraws] :
         \E raw \in {Mat(rows, num_inputs)} :
           \E scaled \in {Div(raw, Scalar(NpMax(raw)))} :
             /\ num_examples' = n
             /\ X' = scaled
             /\ noise' = Vec(nz)
             /\ y' = Add(real_fn(raw), Vec(nz))
  /\ state' = "GENERATED"
  /\ UNCHANGED <<w, b, params, lr, tolerance, epochs, commits, gradient, loss, new_w, out, fnvars>>

\* X = multivariate_normal(...); X /= np.max(X); noise = normal(...); y = real_fn(X) + noise
Generate ==
  /\ state = "NEW"
  /\ \E n \in 1..MaxExamples :
       \E rows \in [1..n -> RawRows], nz \in [1..n -> NoiseDraws] :
         \E raw \in {Mat(rows, num_inputs)} :
           \E scaled \in {Div(raw, Scalar(NpMax(raw)))} :
             /\ num_examples' = n
             /\ X' = scaled
             /\ noise' = Vec(nz)
             /\ y' = Add(real_fn(scaled), Vec(nz))
  /\ state' = "GENERATED"
  /\ UNCHANGED <<w, b, params, lr, tolerance, epochs, commits, gradient, loss, new_w, out, fnvars>>

\* w = multivariate_normal(input_mean, input_variance, num_examples)
\* b = normal(0, 1, num_examples)
\* params = [w, b]
InitParams ==
  /\ state = "GENERATED"
  /\ \E rows \in [1..num_examples -> WRows], bs \in [1..num_examples -> BDraws] :
       /\ w' = Mat(rows, num_inputs)
       /\ b' = Vec(bs)
       /\ params' = <<Mat(rows, num_inputs), Vec(bs)>>
  /\ state' = "INITIALISED"
  /\ UNCHANGED <<num_examples, X, noise, y, lr, tolerance, epochs, commits, gradient, loss, new_w, out, fnvars>>

\* lr = ...; tolerance = ...; epochs = 1
StartDescent ==
  /\ state = "INITIALISED"
  /\ lr' \in LrSet
  /\ tolerance' \in TolSet
  /\ epochs' = 1
  /\ state' = "RUNNING"
  /\ UNCHANGED <<num_examples, X, noise, y, w, b, params, commits, gradient, loss, new_w, out, fnvars>>

\* the loop with the update applied to X in place of w
LoopStep_UpdatesX ==
  /\ state = "RUNNING"
  /\ epochs < MaxEpochs
  /\ \E gl \in {get_gradient(w, X, y)} : \E nw \in {NewW(w, lr, gl[1])} :
         /\ gradient' = gl[1]
         /\ loss' = gl[2]
         /\ new_w' = nw
         /\ IF StopCondition(nw, w, tolerance)
            THEN /\ out' = Append(out, [line |-> "Converged.", epochs |-> 0, loss |-> Zero])
                 /\ state' = "CONVERGED"
                 /\ UNCHANGED <<w, epochs, commits, X>>
            ELSE /\ out' = IF epochs % 3 = 0
                           THEN Append(out, [line |-> "Iteration", epochs |-> epochs,
                                             loss |-> gl[2].data[1]])
                           ELSE out
                 /\ epochs' = epochs + 1
                 /\ X' = nw /\ w' = w /\ commits' = commits + 1
                 /\ state' = "RUNNING"
  /\ UNCHANGED <<num_examples, noise, y, b, params, lr, tolerance, fnvars>>

\* the loop with an iteration cap: it also stops once epochs has reached 2
LoopStep_Capped ==
  /\ state = "RUNNING"
  /\ epochs < MaxEpochs
  /\ \E gl \in {get_gradient(w, X, y)} : \E nw \in {NewW(w, lr, gl[1])} :
         /\ gradient' = gl[1]
         /\ loss' = gl[2]
         /\ new_w' = nw
         /\ IF StopCondition(nw, w, tolerance) \/ epochs >= 2
            THEN /\ out' = Append(out, [line |-> "Converged.", epochs |-> 0, loss |-> Zero])
                 /\ state' = "CONVERGED"
                 /\ UNCHANGED <<w, epochs, commits>>
            ELSE /\ out' = IF epochs % 3 = 0
                           THEN Append(out, [line |-> "Iteration", epochs |-> epochs,
                                             loss |-> gl[2].data[1]])
                           ELSE out
                 /\ epochs' = epochs + 1
                 /\ w' = nw /\ commits' = commits + 1
                 /\ state' = "RUNNING"
  /\ UNCHANGED <<num_examples, X, noise, y, b, params, lr, tolerance, fnvars>>

\* the loop committing the candidate before the stopping test
LoopStep_CommitFirst ==
  /\ state = "RUNNING"
  /\ epochs < MaxEpochs
  /\ \E gl \in {get_gradient(w, X, y)} : \E nw \in {NewW(w, lr, gl[1])} :
         /\ gradient' = gl[1]
         /\ loss' = gl[2]
         /\ new_w' = nw
         /\ w' = nw /\ commits' = commits + 1
         /\ IF StopCondition(nw, w, tolerance)
            THEN /\ out' = Append(out, [line |-> "Converged.", epochs |-> 0, loss |-> Zero])
                 /\ state' = "CONVERGED"
                 /\ UNCHANGED epochs
            ELSE /\ out' = IF epochs % 3 = 0
                           THEN Append(out, [line |-> "Iteration", epochs |-> epochs,
                                             loss |-> gl[2].data[1]])
                           ELSE out
                 /\ epochs' = epochs + 1
                 /\ state' = "RUNNING"
  /\ UNCHANGED <<num_examples, X, noise, y, b, params, lr, tolerance, fnvars>>

\* the loop counting the iteration before the stopping test
LoopStep_CountFirst ==
  /\ state = "RUNNING"
  /\ epochs < MaxEpochs
  /\ \E gl \in {get_gradient(w, X, y)} : \E nw \in {NewW(w, lr, gl[1])} :
         /\ gradient' = gl[1]
         /\ loss' = gl[2]
         /\ new_w' = nw
         /\ epochs' = epochs + 1
         /\ IF StopCondition(nw, w, tolerance)
            THEN /\ out' = Append(out, [line |-> "Converged.", epochs |-> 0, loss |-> Zero])
                 /\ state' = "CONVERGED"
                 /\ UNCHANGED <<w, commits>>
            ELSE /\ out' = IF epochs % 3 = 0
                           THEN Append(out, [line |-> "Iteration", epochs |-> epochs,
                                             loss |-> gl[2].data[1]])
                           ELSE out
                 /\ w' = nw /\ commits' = commits + 1
                 /\ state' = "RUNNING"
  /\ UNCHANGED <<num_examples, X, noise, y, b, params, lr, tolerance, fnvars>>

\* one iteration of the while True loop
LoopStep ==
  /\ state = "RUNNING"
  /\ epochs < MaxEpochs
  /\ \E gl \in {get_gradient(w, X, y)} : \E nw \in {NewW(w, lr, gl[1])} :
         /\ gradient' = gl[1]
         /\ loss' = gl[2]
         /\ new_w' = nw
         /\ IF StopCondition(nw, w, tolerance)
            THEN /\ out' = Append(out, [line |-> "Converged.", epochs |-> 0, loss |-> Zero])
                 /\ state' = "CONVERGED"
                 /\ UNCHANGED <<w, epochs, commits>>
            ELSE /\ out' = IF epochs % 3 = 0
                           THEN Append(out, [line |-> "Iteration", epochs |-> epochs,
                                             loss |-> gl[2].data[1]])
                           ELSE out
                 /\ epochs' = epochs + 1
                 /\ w' = nw /\ commits' = commits + 1
                 /\ state' = "RUNNING"
  /\ UNCHANGED <<num_examples, X, noise, y, b, params, lr, tolerance, fnvars>>

Next == Generate \/ InitParams \/ StartDescent \/ LoopStep

Spec == Init /\ [][Next]_vars

(* ------------- square_loss called directly on two vectors -------------- *)
\* elements and vectors (of length 1..MaxLen) handed to square_loss
FnValues == {Int2R(2), Rat(-34, 10), Zero}
FnVectors == UNION {[1..n -> FnValues] : n \in 1..MaxLen}

InitFn ==
  /\ state = "NEW"
  /\ num_examples = 0
  /\ X = Unset /\ noise = Unset /\ y = Unset
  /\ w = Unset /\ b = Unset /\ params = <<>>
  /\ lr = Zero /\ tolerance = Zero /\ epochs = 0 /\ commits = 0
  /\ gradient = Unset /\ loss = Unset /\ new_w = Unset
  /\ out = <<>>
  /\ fn_pc = "call"
  /\ \E p \in FnVectors, q \in FnVectors : fn_yhat = Vec(p) /\ fn_y = Vec(q)
  /\ fn_loss = Unset

CallSquareLoss ==
  /\ fn_pc = "call"
  /\ fn_loss' = square_loss(fn_yhat, fn_y)
  /\ fn_pc' = "done"
  /\ UNCHANGED <<progvars, fn_yhat, fn_y>>

SpecFn == InitFn /\ [][CallSquareLoss]_vars

\* the notebook's run and the direct calls of square_loss together: a run is
\* one or the other
InitAll == Init \/ InitFn
NextAll == (fn_pc = "idle" /\ Next) \/ CallSquareLoss
SpecAll == InitAll /\ [][NextAll]_vars

(* ============================== properties ============================= *)
\* sum of f[1] .. f[n]
RECURSIVE SumTo(_, _)
SumTo(f, n) == IF n = 0 THEN Zero ELSE RAdd(SumTo(f, n - 1), f[n])

\* element (i, k) of the weights and of the features, 1-based
WAt(i, k) == w.data[(i - 1) * num_inputs + k]
XAt(j, k) == X.data[(j - 1) * num_inputs + k]
Rows(a) == a.shape[1]

\* sum over all weight elements of |candidate - current| for the step being taken
AbsChange ==
  LET D == [k \in 1..Len(w.data) |-> RAbs(RSub(new_w'.data[k], w.data[k]))]
  IN  SumTo(D, Len(w.data))

\* C1: every loop step goes from RUNNING to CONVERGED exactly when the summed
\* absolute weight change is strictly below the tolerance; every other step
\* stays RUNNING, commits the candidate weights and adds one to epochs.
C1_Transition ==
  [][state = "RUNNING" =>
       IF RLess(AbsChange, tolerance)
       THEN state' = "CONVERGED"
       ELSE state' = "RUNNING" /\ w' = new_w' /\ epochs' = epochs + 1]_vars

\* a run with a non-converging step followed by a converging one
C1_Witness == state = "CONVERGED" /\ epochs > 1 /\ lr # Zero

\* C2: with learning rate 0 and a tolerance > 0 the only step the driver takes
\* is its first one, it ends CONVERGED and leaves the weights as initialised.
C2_ZeroRate ==
  /\ []((state \in {"RUNNING", "CONVERGED"} /\ lr = Zero /\ RLess(Zero, tolerance)) =>
         (epochs = 1 /\ w = params[1]))
  /\ [][(state = "RUNNING" /\ lr = Zero /\ RLess(Zero, tolerance)) =>
         (state' = "CONVERGED" /\ new_w' = w)]_vars

C2_Witness ==
  /\ state = "CONVERGED" /\ lr = Zero /\ epochs = 1
  /\ \E k \in 1..Len(gradient.data) : gradient.data[k] # Zero

NoNoise == \A k \in 1..Len(noise.data) : noise.data[k] = Zero
AtTrueW == \A i \in 1..Rows(w) : \A k \in 1..num_inputs : WAt(i, k) = TrueW[k]
AtTrueB == \A j \in 1..Len(b.data) : b.data[j] = TrueB

\* C3 as stated: noise-free targets and weights equal to the true weights make
\* the first step converge.
C3_TrueWeightsOnly ==
  [][(state = "RUNNING" /\ epochs = 1 /\ NoNoise /\ AtTrueW /\ RLess(Zero, tolerance)) =>
       state' = "CONVERGED"]_vars

\* C3 amended: noise-free targets, every weight row equal to the true weights
\* and every bias element equal to the true bias make the first gradient zero
\* and the first step converge, for every positive tolerance.
C3_TrueParams ==
  [][(state = "RUNNING" /\ epochs = 1 /\ NoNoise /\ AtTrueW /\ AtTrueB
        /\ RLess(Zero, tolerance)) =>
       /\ \A k \in 1..Len(gradient'.data) : gradient'.data[k] = Zero
       /\ state' = "CONVERGED"]_vars

C3_Witness ==
  /\ state = "CONVERGED" /\ epochs = 1 /\ lr # Zero
  /\ NoNoise /\ AtTrueW /\ AtTrueB /\ num_examples > 1

\* prediction of weight row i for sample j, its error, and the gradient
\* element of weight row i for feature k, written out sample by sample
PredAt(i, j) ==
  LET T == [m \in 1..num_inputs |-> RMul(WAt(i, m), XAt(j, m))]
  IN  RAdd(SumTo(T, num_inputs), b.data[j])
ErrAt(i, j) == RSub(y.data[j], PredAt(i, j))
GradAt(i, k) ==
  LET T == [j \in 1..Rows(X) |-> RMul(ErrAt(i, j), XAt(j, k))]
  IN  RMul(Rat(-1, Rows(X)), SumTo(T, Rows(X)))

\* C4: in every step, for each weight row, the gradient is -(1/n) times the
\* product of that row's error vector (targets minus predictions over the n
\* samples) with the feature matrix, and the candidate weights are the current
\* weights minus lr times the gradient.
C4_Gradient ==
  [][state = "RUNNING" =>
       /\ gradient'.shape = w.shape /\ new_w'.shape = w.shape
       /\ \A i \in 1..Rows(w) : \A k \in 1..num_inputs :
            LET idx == (i - 1) * num_inputs + k
            IN  /\ gradient'.data[idx] = GradAt(i, k)
                /\ new_w'.data[idx] = RSub(WAt(i, k), RMul(lr, GradAt(i, k)))]_vars

\* a committed step with a non-zero gradient, a learning rate and two samples
C4_Witness ==
  /\ state = "RUNNING" /\ epochs > 1 /\ lr # Zero /\ num_examples > 1
  /\ \E k \in 1..Len(gradient.data) : gradient.data[k] # Zero

\* C5: for vectors of equal length square_loss is >= 0, and it is 0 exactly
\* when the predictions equal the targets element by element.
C5_Loss ==
  (fn_pc = "done" /\ Len(fn_yhat.data) = Len(fn_y.data)) =>
    /\ ~fn_loss.err
    /\ ~RLess(fn_loss.data[1], Zero)
    /\ (fn_loss.data[1] = Zero <=> fn_yhat.data = fn_y.data)

\* exact predictions [2, -3.4] against targets [2, -3.4]
C5_Witness ==
  /\ fn_pc = "done" /\ fn_loss.data = <<Zero>>
  /\ fn_yhat.data = TrueW /\ fn_y.data = TrueW

Driving == state \in {"INITIALISED", "RUNNING", "CONVERGED"}

\* C6: net returns a vector with one prediction per sample.
C6_NetLength ==
  Driving => (~net(X).err /\ net(X).shape = <<Rows(X)>>)

\* C7: square_loss fails whenever its two inputs differ in length.
C7_MismatchFails ==
  (fn_pc = "done" /\ Len(fn_yhat.data) # Len(fn_y.data)) => fn_loss.err

\* C8: after a non-converging step whose error is non-zero the bias differs
\* from the bias as initialised.
C8_BiasUpdated ==
  (state = "RUNNING" /\ epochs > 1 /\ loss.data[1] # Zero) => b # params[2]

\* C9: once generated, the feature matrix and the targets never change, and
\* the feature matrix has one row per target.
C9_DataFrozen ==
  /\ [](state # "NEW" => (X.shape = <<Len(y.data), num_inputs>> /\ y.shape = <<num_examples>>))
  /\ [][state # "NEW" => (X' = X /\ y' = y)]_vars

\* the driver has committed an update over two samples
C9_Witness == state = "RUNNING" /\ epochs > 1 /\ w # params[1] /\ num_examples > 1

\* C10: w is one vector of num_inputs elements and b is one scalar.
C10_ParamShapes ==
  Driving => (w.shape = <<num_inputs>> /\ b.shape = <<>>)

\* the step being taken appends a loss line to the output
LossLinePrinted ==
  /\ Len(out') = Len(out) + 1
  /\ out'[Len(out')].line = "Iteration"

\* C11: a loss line is emitted in an iteration exactly when the iteration does
\* not converge and its number is a multiple of 50.
C11_Every50 ==
  [][state = "RUNNING" =>
       (LossLinePrinted <=> (state' = "RUNNING" /\ epochs % 50 = 0))]_vars

\* C12: every target is 2 * X[i][0] - 3.4 * X[i][1] + 4.2 + noise[i] for the
\* feature matrix X as stored (after the division by its maximum) and the
\* sample's own noise draw.
C12_Targets ==
  state # "NEW" =>
    /\ y.shape = <<Rows(X)>> /\ noise.shape = <<Rows(X)>>
    /\ \A i \in 1..Rows(X) :
         y.data[i] = RAdd(RAdd(RSub(RMul(Int2R(2), XAt(i, 1)),
                                    RMul(Rat(34, 10), XAt(i, 2))),
                               Rat(42, 10)),
                          noise.data[i])

\* two samples with different features and different noise draws
C12_Witness ==
  /\ state = "GENERATED" /\ num_examples > 1
  /\ XAt(1, 2) # XAt(2, 2) /\ noise.data[1] # noise.data[2]

\* C13: the only exit from RUNNING is the tolerance test; a step whose test is
\* false stays RUNNING and adds one to epochs; and with a tolerance <= 0 the
\* driver never leaves RUNNING, whatever the learning rate.
C13_NoCap ==
  /\ [][(state = "RUNNING" /\ state' # "RUNNING") =>
          (state' = "CONVERGED" /\ RLess(AbsChange, tolerance))]_vars
  /\ [][(state = "RUNNING" /\ ~RLess(AbsChange, tolerance)) =>
          (state' = "RUNNING" /\ epochs' = epochs + 1)]_vars
  /\ []((state \in {"RUNNING", "CONVERGED"} /\ ~RLess(Zero, tolerance)) => state = "RUNNING")

\* learning rate 0 and tolerance 0: the weights have never moved and the
\* driver is still running at the last counter value the model admits
C13_Witness ==
  /\ state = "RUNNING" /\ epochs = MaxEpochs
  /\ lr = Zero /\ tolerance = Zero /\ w = params[1]

\* C14: the step that converges keeps the weights and the iteration counter as
\* they were before it and prints no loss line (only "Converged."), and from
\* CONVERGED no step changes the weights, the bias or the counter.
C14_Discard ==
  /\ [][(state = "RUNNING" /\ state' = "CONVERGED") =>
          (/\ w' = w /\ epochs' = epochs
           /\ ~LossLinePrinted
           /\ out' = Append(out, [line |-> "Converged.", epochs |-> 0, loss |-> Zero]))]_vars
  /\ [][state = "CONVERGED" => (w' = w /\ b' = b /\ epochs' = epochs)]_vars

\* converged in iteration 3, where a continuing step would have printed a loss
\* line, with a candidate that differs from the weights kept
C14_Witness ==
  /\ state = "CONVERGED" /\ epochs = 3
  /\ new_w # w /\ w # params[1]
  /\ \A k \in 1..Len(out) : out[k].line = "Converged."

\* C15: in the driver epochs = 1 + the number of committed weight updates; it is
\* 1 when the loop starts, never decreases, and changes only in a step that
\* commits the candidate (w = new_w), by exactly 1.
C15_Counter ==
  /\ [](state \in {"RUNNING", "CONVERGED"} => epochs = 1 + commits)
  /\ [][(state' = "RUNNING" /\ state # "RUNNING") => (epochs' = 1 /\ commits' = 0)]_vars
  /\ [][(state \in {"RUNNING", "CONVERGED"}) =>
          (/\ epochs' >= epochs
           /\ epochs' # epochs =>
                (epochs' = epochs + 1 /\ commits' = commits + 1 /\ w' = new_w'))]_vars

\* converged after two committed updates that moved the weights
C15_Witness ==
  /\ state = "CONVERGED" /\ commits = 2 /\ epochs = 3
  /\ w # params[1]

\* square_loss(predictions, targets) for the predictions of the current weights,
\* written out element by element over the prediction matrix
LossOfPredictions ==
  LET n == Rows(X)
      S == [c \in 1..(Rows(w) * n) |->
              LET i == ((c - 1) \div n) + 1
                  j == ((c - 1) % n) + 1
                  d == RSub(PredAt(i, j), y.data[j])
              IN  RMul(d, d)]
  IN  RDiv(SumTo(S, Rows(w) * n), Int2R(Rows(w) * n))

\* C16: for vectors of equal length square_loss(a, b) = square_loss(b, a); and
\* the loss get_gradient returns, computed as square_loss(targets, predictions),
\* is square_loss(predictions, targets) for the predictions of the weights held
\* before the step's update.
C16_Symmetric ==
  /\ []((fn_pc = "done" /\ Len(fn_yhat.data) = Len(fn_y.data)) =>
          (~fn_loss.err /\ fn_loss = square_loss(fn_y, fn_yhat)))
  /\ [][state = "RUNNING" =>
          (/\ loss' = square_loss(net(X), y)
           /\ loss'.data = <<LossOfPredictions>>)]_vars

\* a direct call on two different vectors of length 2 with a non-zero loss
C16_Witness ==
  /\ fn_pc = "done"
  /\ fn_yhat.data = <<Int2R(2), Zero>> /\ fn_y.data = <<Rat(-34, 10), Int2R(2)>>
  /\ fn_loss.data # <<Zero>>

====
